---- MODULE Spec2Model ----
(***************************************************************************)
(* Model of create_context.py: main() walks the working directory with     *)
(* os.walk, filters directories and files by name, reads every remaining   *)
(* file as UTF-8 text into a buffer of text segments, joins the buffer     *)
(* and writes it to project_code_consolidated.txt in the working           *)
(* directory.                                                              *)
(*                                                                         *)
(* Representation.  A path is the sequence of its os.sep-separated         *)
(* segments (an absolute path starts with the empty segment).  A file      *)
(* name is the sequence of its characters, because should_skip_file and    *)
(* sorted() look inside it.  A text (a file's content, the report) is a    *)
(* sequence of pieces; a piece is a record, the same shape for all.        *)
(***************************************************************************)
EXTENDS Integers, Sequences, FiniteSets

(* ------------------------------ bounds -------------------------------- *)

\* Largest number of files in the working tree before the first run.
MaxFiles == 2

\* Largest number of successive runs of main().
MaxRuns == 2

(* ----------------------------- constants ------------------------------ *)

\* "=" * 80
SepWidth == 80

(* --------------------------- file names ------------------------------- *)

N_a_txt == <<"a", ".", "t", "x", "t">>
N_B_md == <<"B", ".", "m", "d">>
N_log == <<"l", "o", "g">>
N_x_log == <<"x", ".", "l", "o", "g">>
N_Cargo_lock == <<"C", "a", "r", "g", "o", ".", "l", "o", "c", "k">>

\* output_file = "project_code_consolidated.txt"
output_file ==
    <<"p", "r", "o", "j", "e", "c", "t", "_", "c", "o", "d", "e", "_",
      "c", "o", "n", "s", "o", "l", "i", "d", "a", "t", "e", "d",
      ".", "t", "x", "t">>

\* The characters of the names above, in ascending code point order: Python
\* compares strings code point by code point.
CodePoints ==
    <<".", "B", "C", "_", "a", "c", "d", "e", "g", "i", "j", "k", "l", "m",
      "n", "o", "p", "r", "s", "t", "x">>

Ord(c) == CHOOSE i \in DOMAIN CodePoints : CodePoints[i] = c

Range(s) == {s[i] : i \in DOMAIN s}

\* a < b on Python strings
StrLess(a, b) ==
    \E k \in 1..(Len(a) + 1) :
        /\ k <= Len(b)
        /\ \A j \in 1..(k - 1) : a[j] = b[j]
        /\ \/ k = Len(a) + 1
           \/ k <= Len(a) /\ Ord(a[k]) < Ord(b[k])

\* str.endswith
endswith(s, suffix) ==
    /\ Len(suffix) <= Len(s)
    /\ SubSeq(s, Len(s) - Len(suffix) + 1, Len(s)) = suffix

(* ----------------------- the exclusion sets --------------------------- *)

skip_dirs == {"build", ".gradle", ".idea", "out", "target", "bin"}

\* the pruning lost, as when dirs is rebound instead of assigned in place
never_skip_directory(dir_name) == FALSE

should_skip_directory(dir_name) == dir_name \in skip_dirs

path_skip_dirs == {".git", "build", ".gradle", ".idea", "vendor"}

\* the path-level check left out
path_not_checked(root) == FALSE

\* any(skip_dir in root.split(os.sep) for skip_dir in [...]): root is the
\* path os.walk yields, which starts with start_path.
path_excluded(root) == \E skip_dir \in path_skip_dirs : skip_dir \in Range(root)

skip_extensions ==
    { <<".", "c", "l", "a", "s", "s">>, <<".", "j", "a", "r">>,
      <<".", "w", "a", "r">>, <<".", "e", "a", "r">>, <<".", "z", "i", "p">>,
      <<".", "t", "a", "r">>, <<".", "g", "z">>, <<".", "p", "y", "c">>,
      <<".", "p", "y", "o">>, <<".", "p", "y", "d">>, <<".", "d", "l", "l">>,
      <<".", "s", "o">>, <<".", "d", "y", "l", "i", "b">>,
      <<".", "l", "o", "g">>, <<".", "t", "m", "p">>, <<".", "s", "w", "p">>,
      <<".", "D", "S", "_", "S", "t", "o", "r", "e">> }

skip_files == {N_Cargo_lock}

\* the name compared with the suffixes instead of its end
should_skip_file_exact(file_name) ==
    file_name \in skip_extensions \/ file_name \in skip_files

should_skip_file(file_name) ==
    \/ \E ext \in skip_extensions : endswith(file_name, ext)
    \/ file_name \in skip_files

(* ------------------------------ sorting ------------------------------- *)

RECURSIVE sorted(_)
\* for file in files
unsorted(names) == names

sorted(names) ==
    IF names = <<>> THEN <<>>
    ELSE LET m == CHOOSE x \in Range(names) :
                      \A y \in Range(names) : x = y \/ StrLess(x, y)
         IN  <<m>> \o sorted(SelectSeq(names, LAMBDA y : y # m))

\* Every order in which a directory listing can return a set of names.
Listings(S) ==
    {s \in [1..Cardinality(S) -> S] : \A i, j \in DOMAIN s : s[i] = s[j] => i = j}

(* --------------------------- text segments ---------------------------- *)

NoPath == [dir |-> <<>>, name |-> <<>>]

Seg(kind, path, body, n, msg) ==
    [kind |-> kind, path |-> path, body |-> body, n |-> n, msg |-> msg]

\* f"Code consolidated on: {datetime.datetime.now()}\n"
TimestampLine(t) == Seg("timestamp", NoPath, <<>>, t, "")
\* "Project structure and contents:\n"
Banner == Seg("banner", NoPath, <<>>, 0, "")
\* "=" * 80 + "\n\n"
BannerRule == Seg("banner_rule", NoPath, <<>>, SepWidth, "")
\* f"File: {relative_path}"
FileLine(rel) == Seg("file", rel, <<>>, 0, "")
\* "=" * 80
Rule == Seg("rule", NoPath, <<>>, SepWidth, "")
\* content
ContentSeg(content) == Seg("content", NoPath, content, 0, "")
\* "\n" + "=" * 80 + "\n\n"
TrailRule == Seg("trail_rule", NoPath, <<>>, SepWidth, "")
\* f"Error reading {relative_path}: {str(e)}\n"
ErrorLine(rel, e) == Seg("error", rel, <<>>, 0, e)
\* the "\n" that join puts between two segments
Newline == Seg("newline", NoPath, <<>>, 0, "")
\* the text of a file of the tree: one piece that names the file it is in
RawText(dir, name) == <<Seg("raw", [dir |-> dir, name |-> name], <<>>, 0, "")>>

RECURSIVE join(_)
\* "".join(output)
concat(segments) == segments

\* "\n".join(output)
join(segments) ==
    IF Len(segments) <= 1 THEN segments
    ELSE <<Head(segments), Newline>> \o join(Tail(segments))

Header(t) == <<TimestampLine(t), Banner, BannerRule>>

Block(rel, content) == <<FileLine(rel), Rule, ContentSeg(content), TrailRule>>

(* ------------------------- the working tree --------------------------- *)

\* The working directories main() is started in (os.getcwd()).
StartPaths ==
    { <<"", "home", "proj">>, <<"", "home", "build", "proj">>, <<"", "opt", "bin">> }

\* The subdirectories of the working directory, as paths relative to it, in
\* the order in which a directory listing returns them.
Layouts ==
    { <<>>,
      << <<"src">> >>,
      << <<"src">>, <<"src", "bin">> >>,
      << <<".git">>, <<".git", "hooks">> >>,
      << <<"build">>, <<"builds">> >>,
      << <<"src">>, <<"lib">> >>,
      << <<"lib">>, <<"src">> >>,
      << <<"vendor">>, <<"bin">> >> }

\* The files a directory can hold: a name and what reading the file does
\* ("denied": open raises PermissionError; "dangling", a symbolic link to
\* nothing: open raises FileNotFoundError; "badutf8": read raises
\* UnicodeDecodeError).
FileKinds ==
    { [name |-> N_a_txt, status |-> "ok"], [name |-> N_a_txt, status |-> "badutf8"],
      [name |-> N_B_md, status |-> "ok"], [name |-> N_B_md, status |-> "denied"],
      [name |-> N_log, status |-> "dangling"],
      [name |-> N_x_log, status |-> "ok"],
      [name |-> N_Cargo_lock, status |-> "ok"] }

RECURSIVE SubsetsUpTo(_, _)
SubsetsUpTo(S, k) ==
    IF k = 0 THEN {{}}
    ELSE LET P == SubsetsUpTo(S, k - 1)
         IN  P \cup {p \cup {x} : p \in P, x \in S}

File(dir, name, status, content) ==
    [dir |-> dir, name |-> name, status |-> status, content |-> content]

\* The trees with at most MaxFiles files in the directories of a layout.
Trees(layout) ==
    LET slots == {File(d, k.name, k.status, RawText(d, k.name)) :
                      d \in {<<>>} \cup Range(layout), k \in FileKinds}
    IN  {T \in SubsetsUpTo(slots, MaxFiles) :
            \A f, g \in T : (f.dir = g.dir /\ f.name = g.name) => f = g}

(* ------------------------------- state -------------------------------- *)

VARIABLES
    start_path,  \* the working directory (current_dir, start_path)
    dirs,        \* its subdirectories, relative, in listing order
    files,       \* the files of the tree
    clock,       \* datetime.datetime.now()
    runs,        \* runs of main() started so far
    pc,          \* where the current run is
    output,      \* collect_code's buffer of segments
    stack,       \* os.walk: directories still to be yielded, next first
    root,        \* os.walk: the directory yielded last
    pending,     \* the rest of sorted(files) of that directory
    handles,     \* input files open now
    opened,      \* input files opened in this run, in order
    listed,      \* directories os.walk has listed in this run
    text,        \* what collect_code returned
    written,     \* the report each finished write put in the output file
    printed,     \* the success message has been printed
    tree0        \* the files of the tree when this run began

vars ==
    <<start_path, dirs, files, clock, runs, pc, output, stack, root, pending,
      handles, opened, listed, text, written, printed, tree0>>

\* os.path.relpath(path, start) for a path under start
relpath(path, start) == SubSeq(path, Len(start) + 1, Len(path))

\* os.scandir(top) in os.walk: the names of top's subdirectories
ListDirs(top) ==
    LET rel == relpath(top, start_path)
        sub == SelectSeq(dirs, LAMBDA d :
                   Len(d) = Len(rel) + 1 /\ SubSeq(d, 1, Len(rel)) = rel)
    IN  [i \in DOMAIN sub |-> sub[i][Len(sub[i])]]

\* os.scandir(top) in os.walk: the names of top's files
FileNamesIn(top) == {f.name : f \in {g \in files : g.dir = relpath(top, start_path)}}

FileAt(top, name) ==
    CHOOSE f \in files : f.dir = relpath(top, start_path) /\ f.name = name

\* except Exception
ExceptionClasses == {"PermissionError", "UnicodeDecodeError", "FileNotFoundError"}

\* except UnicodeDecodeError
caught_unicode_only(e) == e = "UnicodeDecodeError"

caught(e) == e \in ExceptionClasses

\* f = open(...) with no with block and no close
with_exit_leak(open_handles, path) == open_handles

\* leaving the with block, by its end or by an exception

with_exit(open_handles, path) == open_handles \ {path}

Init ==
    /\ start_path \in StartPaths
    /\ dirs \in Layouts
    /\ files \in Trees(dirs)
    /\ clock = 0
    /\ runs = 0
    /\ pc = "idle"
    /\ output = <<>>
    /\ stack = <<>>
    /\ root = <<>>
    /\ pending = <<>>
    /\ handles = {}
    /\ opened = <<>>
    /\ listed = {}
    /\ text = <<>>
    /\ written = <<>>
    /\ printed = FALSE
    /\ tree0 = {}

(* ------------------------------ actions ------------------------------- *)

\* main() up to the call of collect_code, and collect_code up to the loop
StartMain ==
    /\ pc \in {"idle", "done"}
    /\ runs < MaxRuns
    /\ runs' = runs + 1
    /\ clock' = clock + 1
    /\ output' = Header(clock')
    /\ stack' = <<start_path>>
    /\ root' = <<>>
    /\ pending' = <<>>
    /\ opened' = <<>>
    /\ listed' = {}
    /\ text' = <<>>
    /\ printed' = FALSE
    /\ tree0' = files
    /\ pc' = "walk"
    /\ UNCHANGED <<start_path, dirs, files, handles, written>>

\* one iteration of "for root, dirs, files in os.walk(start_path)" up to the
\* loop over the files
WalkDir ==
    /\ pc = "walk"
    /\ pending = <<>>
    /\ stack # <<>>
    /\ LET top == Head(stack)
           kept == SelectSeq(ListDirs(top), LAMBDA d : ~should_skip_directory(d))
       IN  /\ root' = top
           /\ listed' = listed \cup {top}
           /\ stack' = [i \in DOMAIN kept |-> Append(top, kept[i])] \o Tail(stack)
           /\ IF path_excluded(top)
              THEN pending' = <<>>
              ELSE \E listing \in Listings(FileNamesIn(top)) :
                       pending' = sorted(listing)
    /\ UNCHANGED <<start_path, dirs, files, clock, runs, pc, output, handles,
                   opened, text, written, printed, tree0>>

\* if should_skip_file(file): continue
SkipFile ==
    /\ pc = "walk"
    /\ pending # <<>>
    /\ should_skip_file(Head(pending))
    /\ pending' = Tail(pending)
    /\ UNCHANGED <<start_path, dirs, files, clock, runs, pc, output, stack, root,
                   handles, opened, listed, text, written, printed, tree0>>

\* what the except clause does with exception e raised for the file at rel
Raise(rel, e) ==
    IF caught(e)
    THEN /\ output' = Append(output, ErrorLine(rel, e))
         /\ pending' = Tail(pending)
         /\ pc' = "walk"
    ELSE /\ pc' = "crashed"
         /\ UNCHANGED <<output, pending>>

\* open(file_path, 'r', encoding='utf-8')
OpenFile ==
    /\ pc = "walk"
    /\ pending # <<>>
    /\ ~should_skip_file(Head(pending))
    /\ LET rel == [dir |-> relpath(root, start_path), name |-> Head(pending)]
           f == FileAt(root, Head(pending))
       IN  /\ opened' = Append(opened, rel)
           /\ IF f.status \in {"denied", "dangling"}
              THEN /\ Raise(rel, IF f.status = "denied" THEN "PermissionError"
                                 ELSE "FileNotFoundError")
                   /\ UNCHANGED handles
              ELSE /\ handles' = handles \cup {rel}
                   /\ pc' = "file"
                   /\ UNCHANGED <<output, pending>>
    /\ UNCHANGED <<start_path, dirs, files, clock, runs, stack, root, listed,
                   text, written, printed, tree0>>

\* content = f.read(), the four appends, and the end of the with block
ReadFile ==
    /\ pc = "file"
    /\ LET rel == [dir |-> relpath(root, start_path), name |-> Head(pending)]
           f == FileAt(root, Head(pending))
       IN  /\ handles' = with_exit(handles, rel)
           /\ IF f.status = "ok"
              THEN /\ output' = output \o Block(rel, f.content)
                   /\ pending' = Tail(pending)
                   /\ pc' = "walk"
              ELSE Raise(rel, "UnicodeDecodeError")
    /\ UNCHANGED <<start_path, dirs, files, clock, runs, stack, root, opened,
                   listed, text, written, printed, tree0>>

\* return "\n".join(output)
Return ==
    /\ pc = "walk"
    /\ pending = <<>>
    /\ stack = <<>>
    /\ text' = join(output)
    /\ pc' = "flush"
    /\ UNCHANGED <<start_path, dirs, files, clock, runs, output, stack, root,
                   pending, handles, opened, listed, written, printed, tree0>>

\* with open(output_file, 'w', encoding='utf-8') as f: f.write(output)
WriteFile ==
    /\ pc = "flush"
    /\ LET others == {f \in files : ~(f.dir = <<>> /\ f.name = output_file)}
       IN  \E outcome \in {"ok", "open_failed", "write_failed"} :
               /\ outcome = "ok" =>
                      /\ files' = others \cup {File(<<>>, output_file, "ok", text)}
                      /\ written' = Append(written, text)
                      /\ pc' = "written"
               /\ outcome = "open_failed" =>
                      /\ UNCHANGED <<files, written>>
                      /\ pc' = "failed"
               /\ outcome = "write_failed" =>
                      /\ files' = others \cup {File(<<>>, output_file, "ok", <<>>)}
                      /\ UNCHANGED written
                      /\ pc' = "failed"
    /\ UNCHANGED <<start_path, dirs, clock, runs, output, stack, root, pending,
                   handles, opened, listed, text, printed, tree0>>

\* the message printed whether or not the write succeeded
PrintDoneAnyway ==
    /\ pc \in {"written", "failed"}
    /\ printed' = TRUE
    /\ pc' = "done"
    /\ UNCHANGED <<start_path, dirs, files, clock, runs, output, stack, root,
                   pending, handles, opened, listed, text, written, tree0>>

\* print(f"Code has been consolidated into {output_file}")
PrintDone ==
    /\ pc = "written"
    /\ printed' = TRUE
    /\ pc' = "done"
    /\ UNCHANGED <<start_path, dirs, files, clock, runs, output, stack, root,
                   pending, handles, opened, listed, text, written, tree0>>

Next ==
    \/ StartMain
    \/ WalkDir
    \/ SkipFile
    \/ OpenFile
    \/ ReadFile
    \/ Return
    \/ WriteFile
    \/ PrintDone

Spec == Init /\ [][Next]_vars

(* ---------------------- what the claims speak of ----------------------- *)

\* The directory names the specification excludes: the pruned ones and the
\* ones of the path-level check.
ExcludedDirNames ==
    {"build", ".gradle", ".idea", "out", "target", "bin", ".git", "vendor"}

\* The ones that are pruned before recursion.
PrunedDirNames == {"build", ".gradle", ".idea", "out", "target", "bin"}

\* The file names of the trees above that end in a skip-listed suffix or are
\* a skip-listed name: x.log and Cargo.lock.
SkipListedNames == {N_x_log, N_Cargo_lock}

\* The file names of the trees above in ascending lexicographic order:
\* B.md, Cargo.lock, a.txt, log, project_code_consolidated.txt, x.log.
NameOrder == <<N_B_md, N_Cargo_lock, N_a_txt, N_log, output_file, N_x_log>>

NameRank(name) == CHOOSE i \in DOMAIN NameOrder : NameOrder[i] = name

\* The positions of the buffer that start an entry: a block or an error line.
Entries(buffer) == {i \in DOMAIN buffer : buffer[i].kind \in {"file", "error"}}

\* The walk of the current run has ended.
WalkOver == pc \in {"flush", "written", "done", "failed"}

\* A file the specification makes eligible: no excluded directory name on its
\* path below the working directory, and no skip-listed name.
Eligible(f) == Range(f.dir) \cap ExcludedDirNames = {} /\ f.name \notin SkipListedNames

PathOf(f) == [dir |-> f.dir, name |-> f.name]

\* The buffer has a complete block for file f, carrying f's content.
HasBlock(f) ==
    \E i \in DOMAIN output :
        /\ output[i].kind = "file"
        /\ output[i].path = PathOf(f)
        /\ i + 3 <= Len(output)
        /\ output[i + 2].kind = "content"
        /\ output[i + 2].body = f.content

\* A sequence of segments made of complete blocks and error lines only.
RECURSIVE OnlyEntries(_)
OnlyEntries(segs) ==
    IF segs = <<>> THEN TRUE
    ELSE IF Head(segs).kind = "error" THEN OnlyEntries(Tail(segs))
    ELSE /\ Head(segs).kind = "file"
         /\ Len(segs) >= 4
         /\ segs[2].kind = "rule" /\ segs[2].n = 80
         /\ segs[3].kind = "content"
         /\ segs[4].kind = "trail_rule" /\ segs[4].n = 80
         /\ OnlyEntries(SubSeq(segs, 5, Len(segs)))

PhaseRank(p) ==
    CASE p = "idle" -> 0
      [] p \in {"walk", "file"} -> 1
      [] p = "flush" -> 2
      [] p = "written" -> 3
      [] p = "done" -> 4
      [] OTHER -> 5

(* ------------------------------ claims -------------------------------- *)

\* C1: the report has no entry, block or error line, for a file that has a
\* directory with an excluded name among its ancestors below the root.
C1_NoEntryUnderExcludedDir ==
    /\ \A i \in Entries(output) :
           Range(output[i].path.dir) \cap ExcludedDirNames = {}
    /\ \A r \in DOMAIN written : \A i \in Entries(written[r]) :
           Range(written[r][i].path.dir) \cap ExcludedDirNames = {}

\* C1 witness: the walk is over, a readable file with an ordinary name lies
\* under an excluded directory, and the report has entries for other files.
C1_Witness ==
    /\ WalkOver
    /\ Entries(output) # {}
    /\ \E f \in tree0 :
           /\ Range(f.dir) \cap ExcludedDirNames # {}
           /\ f.name \notin SkipListedNames
           /\ f.status = "ok"

\* C2: a file with a skip-listed name is never opened and has no entry in the
\* report, whatever else is true of it.
C2_SkipListedNeverReadNorReported ==
    /\ \A i \in DOMAIN opened : opened[i].name \notin SkipListedNames
    /\ \A i \in Entries(output) : output[i].path.name \notin SkipListedNames

\* C2 witness: the walk is over and a directory whose files were reported
\* also holds a file with a skip-listed name.
C2_Witness ==
    /\ WalkOver
    /\ \E f \in tree0 : \E i \in Entries(output) :
           /\ f.name \in SkipListedNames
           /\ output[i].path.dir = f.dir

\* C3 (as claimed): after the walk every readable file with no excluded
\* directory name on its path below the root and no skip-listed name has a
\* block with its relative path and its content.
C3_EveryEligibleFileHasBlock ==
    WalkOver => \A f \in tree0 : (Eligible(f) /\ f.status = "ok") => HasBlock(f)

\* C4 (as claimed): two successive runs in the same working directory write
\* the same report once the timestamp line is dropped.
C4_SecondRunWritesSameBody ==
    Len(written) >= 2 => Tail(written[1]) = Tail(written[2])

\* C5: a file whose read fails (permission denied, file not there, invalid
\* UTF-8) gets exactly one error line and no block, the
\* run does not abort, and when the walk is over every eligible file has its
\* own entry: a block if it is readable, an error line if not.
C5_ReadFailureIsRecordedAndWalkGoesOn ==
    /\ pc # "crashed"
    /\ \A i \in DOMAIN opened :
           LET p == opened[i]
               f == CHOOSE g \in tree0 : PathOf(g) = p
               own == {j \in Entries(output) : output[j].path = p}
           IN  (f.status # "ok" /\ p \notin handles) =>
                   /\ Cardinality(own) = 1
                   /\ \A j \in own :
                          /\ output[j].kind = "error"
                          /\ output[j].msg =
                                 CASE f.status = "denied" -> "PermissionError"
                                   [] f.status = "dangling" -> "FileNotFoundError"
                                   [] OTHER -> "UnicodeDecodeError"
    /\ (WalkOver /\ \E i \in Entries(output) : output[i].kind = "error") =>
           \A f \in tree0 : Eligible(f) =>
               LET own == {j \in Entries(output) : output[j].path = PathOf(f)}
               IN  /\ Cardinality(own) = 1
                   /\ \A j \in own : (output[j].kind = "file") <=> (f.status = "ok")

\* C5 witness: the walk is over and the report has an error line followed by
\* the block of a later file.
C5_Witness ==
    /\ WalkOver
    /\ \E i, j \in Entries(output) :
           i < j /\ output[i].kind = "error" /\ output[j].kind = "file"

\* C6: the entries of the files of one directory are in ascending
\* lexicographic order of file name, and no entry of another directory lies
\* between two of them.
C6_SortedWithinDirectoryAndContiguous ==
    \A i, j \in Entries(output) :
        (i < j /\ output[i].path.dir = output[j].path.dir) =>
            /\ NameRank(output[i].path.name) < NameRank(output[j].path.name)
            /\ \A k \in Entries(output) :
                   (i < k /\ k < j) => output[k].path.dir = output[i].path.dir

\* C6 witness: the report has entries of two files of one directory and an
\* entry of a file of another directory.
C6_Witness ==
    /\ WalkOver
    /\ \E i, j, k \in Entries(output) :
           /\ i < j
           /\ output[i].path.dir = output[j].path.dir
           /\ output[k].path.dir # output[i].path.dir

\* C7: run in an empty directory tree, main() writes a report that is the
\* timestamp line, the banner and the rule of 80 "=", joined by newlines,
\* and nothing else.
C7_EmptyTreeReportIsHeaderOnly ==
    (pc \in {"written", "done"} /\ tree0 = {} /\ dirs = <<>>) =>
        LET report == written[Len(written)]
        IN  /\ [i \in DOMAIN report |-> report[i].kind] =
                   <<"timestamp", "newline", "banner", "newline", "banner_rule">>
            /\ report[5].n = 80
            /\ \E f \in files :
                   f.dir = <<>> /\ f.name = output_file /\ f.content = report

\* C7 witness: a run in an empty directory tree has written its report and
\* printed the message.
C7_Witness == pc = "done" /\ tree0 = {} /\ dirs = <<>> /\ Len(written) = 1

\* C8 (as claimed): the walk lists no directory below the root whose name is
\* an excluded directory name.
C8_NeverEntersExcludedName ==
    \A d \in listed : d # start_path => d[Len(d)] \notin ExcludedDirNames

\* C8 (amended): the walk lists no directory that has build, .gradle, .idea,
\* out, target or bin among its segments below the root, and opens no file
\* that has any excluded directory name among them; it does list .git and
\* vendor.
C8_NeverEntersPrunedNameNorOpensExcluded ==
    /\ \A d \in listed :
           Range(SubSeq(d, Len(start_path) + 1, Len(d))) \cap PrunedDirNames = {}
    /\ \A i \in DOMAIN opened : Range(opened[i].dir) \cap ExcludedDirNames = {}

\* C8 witness: the walk is over, it has listed vendor, and the sibling
\* directory bin holds a file.
C8_Witness ==
    /\ WalkOver
    /\ Append(start_path, "vendor") \in listed
    /\ \E f \in tree0 : f.dir = <<"bin">> /\ f.status = "ok"

\* C9: within a run the phases only advance; the output file is touched only
\* in the flush phase, after the walk has listed every directory that is not
\* pruned and has no file left; one write replaces the prior content with
\* the joined buffer; the message is printed only after the write; a failed
\* write ends the run with no retry and no message.
C9_PhasesInOrderAndOneWrite ==
    /\ [][runs' = runs => PhaseRank(pc') >= PhaseRank(pc)]_vars
    /\ [][(files' # files \/ written' # written) =>
             /\ pc = "flush"
             /\ stack = <<>> /\ pending = <<>> /\ handles = {}
             /\ \A d \in Range(dirs) :
                    Range(d) \cap PrunedDirNames = {} =>
                        (start_path \o d) \in listed]_vars
    /\ [][written' # written =>
             /\ written' = Append(written, text)
             /\ \A f \in files' :
                    (f.dir = <<>> /\ f.name = output_file) => f.content = text]_vars
    /\ [][(printed' /\ ~printed) => (pc = "written" /\ Len(written) = runs)]_vars
    /\ [][pc = "failed" => FALSE]_vars
    /\ [](Len(written) <= runs)
    /\ [](pc = "failed" => ~printed)

\* C9 witness: a run has walked a tree with a file, written the report and
\* printed the message.
C9_Witness ==
    /\ pc = "done"
    /\ printed
    /\ Len(written) = 1
    /\ \E i \in DOMAIN output : output[i].kind = "file"

\* C10: no file is opened twice or has two entries; the buffer after the
\* header is made of complete blocks and single error lines; every block is
\* that of a readable eligible file and carries its content; at most one
\* input file is open, and none is while no file is being read.
C10_OneOpenOneEntryOneHandle ==
    /\ \A i, j \in DOMAIN opened : opened[i] = opened[j] => i = j
    /\ \A i, j \in Entries(output) : output[i].path = output[j].path => i = j
    /\ pc # "idle" => OnlyEntries(SubSeq(output, 4, Len(output)))
    /\ \A i \in DOMAIN output :
           output[i].kind = "file" =>
               \E f \in tree0 :
                   /\ PathOf(f) = output[i].path
                   /\ Eligible(f)
                   /\ f.status = "ok"
                   /\ output[i + 2].body = f.content
    /\ Cardinality(handles) <= 1
    /\ pc # "file" => handles = {}

\* C10 witness: a file is open for reading after an earlier read of the same
\* run has failed.
C10_Witness ==
    /\ pc = "file"
    /\ Cardinality(handles) = 1
    /\ Len(opened) >= 2
    /\ \E i \in Entries(output) : output[i].kind = "error"

====
